---- MODULE Spec2Model ----
(***************************************************************************)
(* Model of examples/agents/python-agent.py: the MCPAgent class, which     *)
(* drives the MCP CLI through discovery, schema loading and execution.     *)
(*                                                                         *)
(* Conventions.                                                            *)
(*  - A JSON / Python value is a tagged record [t |-> tag, v |-> <<x>>];   *)
(*    a key that is missing from a JSON object is the value Absent, JSON   *)
(*    null (Python None) is Null.                                          *)
(*  - Text is a sequence of lexemes; the text is their concatenation.  A   *)
(*    task lexeme is a URL scheme prefix, one whitespace character, one    *)
(*    quote character, or a run of other characters.                       *)
(*  - A method of the class is an operator that returns either             *)
(*    Return(value) or Raise(type, message).                               *)
(*  - A blocking subprocess call is split in two steps: the command is     *)
(*    issued (appended to calls and pending) and, in a later step, its     *)
(*    outcome is delivered to the code that follows the call.              *)
(*  - run holds, per agent, the run of execute_task that main starts;      *)
(*    call holds, per agent, one direct call of a method of the class.     *)
(***************************************************************************)
EXTENDS Integers, Sequences, FiniteSets, TLC

VARIABLES mcp_command, run, call

vars == <<mcp_command, run, call>>

(***************************************************************************)
(* Bounds of the model.                                                    *)
(***************************************************************************)
MaxMatches == 2
MaxOps == 2
MaxSchemas == 2
MaxTaskLen == 4

(***************************************************************************)
(* JSON values.                                                            *)
(***************************************************************************)
Absent == [t |-> "absent", v |-> <<>>]
Null == [t |-> "null", v |-> <<>>]
Obj(r) == [t |-> "obj", v |-> <<r>>]
List(s) == [t |-> "list", v |-> <<s>>]
Str(s) == [t |-> "str", v |-> <<s>>]
Bool(b) == [t |-> "bool", v |-> <<b>>]
Num(n) == [t |-> "num", v |-> <<n>>]
Unwrap(x) == x.v[1]

\* dict.get(key, default), applied to the field of a JSON object: the
\* default is used only when the key is missing; a null stays None.
Get(field, default) == IF field.t = "absent" THEN default ELSE field

\* Python truth value of a JSON value.
Truthy(x) ==
  CASE x.t = "absent" -> FALSE
    [] x.t = "null" -> FALSE
    [] x.t = "bool" -> Unwrap(x)
    [] x.t = "num" -> Unwrap(x) # 0
    [] x.t = "list" -> Len(Unwrap(x)) > 0
    [] x.t = "str" -> Len(Unwrap(x)) > 0
    [] x.t = "obj" -> TRUE

\* Sequences over S of length at most n.
SeqUpTo(S, n) == UNION {[1..k -> S] : k \in 0..n}

(***************************************************************************)
(* Results of a method: a returned value or a raised exception.            *)
(***************************************************************************)
Return(x) == [raised |-> FALSE, exc |-> <<>>, val |-> <<x>>]
Raise(type, msg) == [raised |-> TRUE, exc |-> <<[type |-> type, msg |-> msg]>>, val |-> <<>>]
Value(res) == res.val[1]

(***************************************************************************)
(* Text.                                                                   *)
(***************************************************************************)
Quotes == {"'", "\""}
Spaces == {" "}
Schemes == {"http://", "https://"}

\* The text made of the single lexeme s.
Lit(s) == <<s>>

\* Index of the first element of s at or after i that is in S, or
\* Len(s) + 1 when there is none.
RECURSIVE FirstIn(_, _, _)
FirstIn(s, i, S) ==
  IF i > Len(s) THEN Len(s) + 1
  ELSE IF s[i] \in S THEN i
  ELSE FirstIn(s, i + 1, S)

\* re.search(r"https?://[^\s]+", task): the leftmost scheme prefix that is
\* followed by at least one non-whitespace character; the match runs up to
\* the next whitespace.  <<>> when there is no match, else <<group(0)>>.
RECURSIVE UrlSearch(_, _)
UrlSearch(task, i) ==
  IF i > Len(task) THEN <<>>
  ELSE IF task[i] \in Schemes /\ i < Len(task) /\ task[i + 1] \notin Spaces
       THEN <<SubSeq(task, i, FirstIn(task, i + 1, Spaces) - 1)>>
       ELSE UrlSearch(task, i + 1)

\* re.search(r'["\']([^"\']+)["\']', task): the leftmost quote character
\* that is followed by at least one non-quote character and then by a quote
\* character (of either kind).  <<>> when there is no match, else
\* <<group(1)>>.
RECURSIVE PathSearch(_, _)
PathSearch(task, i) ==
  IF i > Len(task) THEN <<>>
  ELSE IF /\ task[i] \in Quotes
          /\ i < Len(task)
          /\ task[i + 1] \notin Quotes
          /\ FirstIn(task, i + 1, Quotes) <= Len(task)
       THEN <<SubSeq(task, i + 1, FirstIn(task, i + 1, Quotes) - 1)>>
       ELSE PathSearch(task, i + 1)

(***************************************************************************)
(* MCPAgent.infer_arguments.  The schema is accepted and not read.         *)
(***************************************************************************)
NoArgs == [k \in {} |-> Null]

\* Variant: an argument is set only when its pattern is found in the task.
infer_arguments_without_defaults(tool_name, schema, task) ==
  CASE tool_name = "browser_navigate" /\ UrlSearch(task, 1) # <<>> ->
         [k \in {"url"} |-> Str(UrlSearch(task, 1)[1])]
    [] tool_name = "browser_screenshot" ->
         [k \in {"filename", "fullPage"} |->
            IF k = "filename" THEN Str(Lit("screenshot.png")) ELSE Bool(TRUE)]
    [] tool_name = "read_file" /\ PathSearch(task, 1) # <<>> ->
         [k \in {"path"} |-> Str(PathSearch(task, 1)[1])]
    [] OTHER -> NoArgs

infer_arguments(tool_name, schema, task) ==
  CASE tool_name = "browser_navigate" ->
         LET url_match == UrlSearch(task, 1)
         IN [k \in {"url"} |->
               Str(IF url_match # <<>> THEN url_match[1]
                   ELSE Lit("https://example.com"))]
    [] tool_name = "browser_screenshot" ->
         [k \in {"filename", "fullPage"} |->
            IF k = "filename" THEN Str(Lit("screenshot.png")) ELSE Bool(TRUE)]
    [] tool_name = "read_file" ->
         LET path_match == PathSearch(task, 1)
         IN [k \in {"path"} |->
               Str(IF path_match # <<>> THEN path_match[1]
                   ELSE Lit("README.md"))]
    [] OTHER -> NoArgs

\* One invocation of infer_arguments, as recorded in the run.
Inference(tool_name, schema, task) ==
  [tool |-> tool_name, schema |-> schema,
   args |-> infer_arguments(tool_name, schema, task)]


(***************************************************************************)
(* json.dumps and json.loads.  JSON text is a sequence of lexemes: the     *)
(* punctuation { } [ ] , : and the string delimiter, each on its own, one  *)
(* blank after , and :, the words true false null, numerals, and inside a  *)
(* string the lexemes of its text, where a quote and a backslash are       *)
(* written with a backslash before them.  A JSON object is a function from *)
(* its keys to its values; a key whose value is Absent is not a member.    *)
(***************************************************************************)
Numerals == 0..200

\* Variant: the text of a string is written as it is.
EscapedNot(text) == text

\* The text of a string as json.dumps writes it between the delimiters.
Escaped(text) ==
  [i \in 1..Len(text) |->
     CASE text[i] = "\"" -> "\\\""
       [] text[i] = "\\" -> "\\\\"
       [] OTHER -> text[i]]

RECURSIVE json_dumps(_)
RECURSIVE DumpMembers(_, _)
RECURSIVE DumpElements(_, _)

\* The members of object r with keys ks, in dictionary order of insertion
\* (here: a fixed order of the keys).
DumpMembers(r, ks) ==
  IF ks = {} THEN <<>>
  ELSE LET k == CHOOSE x \in ks : TRUE
           member == <<"\"">> \o Escaped(Lit(k)) \o <<"\"", ":", " ">>
                       \o json_dumps(r[k])
       IN IF ks = {k} THEN member
          ELSE member \o <<",", " ">> \o DumpMembers(r, ks \ {k})

DumpElements(s, i) ==
  IF i > Len(s) THEN <<>>
  ELSE IF i = Len(s) THEN json_dumps(s[i])
  ELSE json_dumps(s[i]) \o <<",", " ">> \o DumpElements(s, i + 1)

json_dumps(x) ==
  CASE x.t = "null" -> <<"null">>
    [] x.t = "bool" -> IF Unwrap(x) THEN <<"true">> ELSE <<"false">>
    [] x.t = "num" -> <<ToString(Unwrap(x))>>
    [] x.t = "str" -> <<"\"">> \o Escaped(Unwrap(x)) \o <<"\"">>
    [] x.t = "list" -> <<"[">> \o DumpElements(Unwrap(x), 1) \o <<"]">>
    [] x.t = "obj" ->
         <<"{">> \o DumpMembers(Unwrap(x),
                                {k \in DOMAIN Unwrap(x) : Unwrap(x)[k].t # "absent"})
                 \o <<"}">>

\* The depth of nesting at which the decoder gives up: the recursion limit
\* of the interpreter (sys.getrecursionlimit(), 1000 by default), scaled.
RecursionLimit == 4

\* A parse: it read a value and stopped before index next, or it failed
\* with the exception exc.
NoParse == [ok |-> FALSE, val |-> <<>>, next |-> 0, exc |-> "JSONDecodeError"]
TooDeep == [ok |-> FALSE, val |-> <<>>, next |-> 0, exc |-> "RecursionError"]
Parsed(v, next) == [ok |-> TRUE, val |-> <<v>>, next |-> next, exc |-> ""]

\* The first index at or after i that holds no blank.
RECURSIVE SkipBlanks(_, _)
SkipBlanks(toks, i) ==
  IF i <= Len(toks) /\ toks[i] \in Spaces THEN SkipBlanks(toks, i + 1) ELSE i

\* The text of a string whose opening delimiter is before index i.
RECURSIVE ParseText(_, _, _)
ParseText(toks, i, text) ==
  IF i > Len(toks) THEN NoParse
  ELSE CASE toks[i] = "\"" -> Parsed(text, i + 1)
         [] toks[i] = "\\\"" -> ParseText(toks, i + 1, Append(text, "\""))
         [] toks[i] = "\\\\" -> ParseText(toks, i + 1, Append(text, "\\"))
         [] toks[i] = "\\" -> NoParse
         [] OTHER -> ParseText(toks, i + 1, Append(text, toks[i]))

RECURSIVE ParseValue(_, _, _)
RECURSIVE ParseMembers(_, _, _, _)
RECURSIVE ParseElements(_, _, _, _)

\* The members of an object after its { or after a comma; r holds the
\* members read so far and d is the number of containers that are open.
ParseMembers(toks, i0, r, d) ==
  LET i == SkipBlanks(toks, i0)
  IN IF i > Len(toks) \/ toks[i] # "\"" THEN NoParse
     ELSE LET key == ParseText(toks, i + 1, <<>>)
          IN IF ~key.ok \/ Len(key.val[1]) # 1 THEN NoParse
             ELSE LET c == SkipBlanks(toks, key.next)
                  IN IF c > Len(toks) \/ toks[c] # ":" THEN NoParse
                     ELSE LET v == ParseValue(toks, c + 1, d)
                          IN IF ~v.ok THEN v
                             ELSE LET r1 == (key.val[1][1] :> v.val[1]) @@ r
                                      e == SkipBlanks(toks, v.next)
                                  IN IF e > Len(toks) THEN NoParse
                                     ELSE IF toks[e] = "}" THEN Parsed(Obj(r1), e + 1)
                                     ELSE IF toks[e] = ","
                                          THEN ParseMembers(toks, e + 1, r1, d)
                                     ELSE NoParse

\* The elements of a list after its [ or after a comma.
ParseElements(toks, i0, s, d) ==
  LET v == ParseValue(toks, i0, d)
  IN IF ~v.ok THEN v
     ELSE LET s1 == Append(s, v.val[1])
              e == SkipBlanks(toks, v.next)
          IN IF e > Len(toks) THEN NoParse
             ELSE IF toks[e] = "]" THEN Parsed(List(s1), e + 1)
             ELSE IF toks[e] = "," THEN ParseElements(toks, e + 1, s1, d)
             ELSE NoParse

\* The value that starts at or after index i0, inside d open containers.
ParseValue(toks, i0, d) ==
  LET i == SkipBlanks(toks, i0)
  IN IF i > Len(toks) THEN NoParse
     ELSE CASE toks[i] = "null" -> Parsed(Null, i + 1)
            [] toks[i] = "true" -> Parsed(Bool(TRUE), i + 1)
            [] toks[i] = "false" -> Parsed(Bool(FALSE), i + 1)
            [] toks[i] = "\"" ->
                 LET t == ParseText(toks, i + 1, <<>>)
                 IN IF t.ok THEN Parsed(Str(t.val[1]), t.next) ELSE NoParse
            [] toks[i] = "[" ->
                 LET j == SkipBlanks(toks, i + 1)
                 IN IF d >= RecursionLimit THEN TooDeep
                    ELSE IF j <= Len(toks) /\ toks[j] = "]"
                         THEN Parsed(List(<<>>), j + 1)
                    ELSE ParseElements(toks, i + 1, <<>>, d + 1)
            [] toks[i] = "{" ->
                 LET j == SkipBlanks(toks, i + 1)
                 IN IF d >= RecursionLimit THEN TooDeep
                    ELSE IF j <= Len(toks) /\ toks[j] = "}"
                         THEN Parsed(Obj(<<>>), j + 1)
                    ELSE ParseMembers(toks, i + 1, <<>>, d + 1)
            [] OTHER ->
                 IF \E n \in Numerals : ToString(n) = toks[i]
                 THEN Parsed(Num(CHOOSE n \in Numerals : ToString(n) = toks[i]), i + 1)
                 ELSE NoParse

\* json.loads(text): the value, json.JSONDecodeError when the text is not
\* JSON, RecursionError when it is nested deeper than the decoder can go.
json_loads(toks) ==
  LET v == ParseValue(toks, 1, 0)
  IN IF ~v.ok
     THEN Raise(v.exc, IF v.exc = "RecursionError"
                       THEN Lit("maximum recursion depth exceeded")
                       ELSE Lit("Expecting value"))
     ELSE IF SkipBlanks(toks, v.next) = Len(toks) + 1 THEN Return(v.val[1])
     ELSE Raise("JSONDecodeError", Lit("Extra data"))

\* The JSON value of an Operation {"tool": ..., "args": {...}}.
OperationJson(op) == Obj([tool |-> Str(Lit(op.tool)), args |-> Obj(op.args)])


(***************************************************************************)
(* The response envelope and the shapes of its fields.                     *)
(***************************************************************************)
Envelope(success, data, error, metadata) ==
  [success |-> success, data |-> data, error |-> error, metadata |-> metadata]

EmptyMetadata == [tokensEstimate |-> Absent, executionTime |-> Absent]
EmptyError == [message |-> Absent]
EmptyDiscovery == [matches |-> Absent, suggested_batch |-> Absent]

AttributeError == Raise("AttributeError", Lit("object has no attribute 'get'"))

\* Variant: the metadata and the key are required.
MetadataFieldRequired(response, key) ==
  IF response.metadata.t # "obj" \/ Unwrap(response.metadata)[key].t = "absent"
  THEN Raise("KeyError", Lit(key))
  ELSE Return(Unwrap(response.metadata)[key])

\* response.get("metadata", {}).get(key, "unknown"), read for a progress
\* message only.
MetadataField(response, key) ==
  LET metadata == Get(response.metadata, Obj(EmptyMetadata))
  IN IF metadata.t # "obj" THEN AttributeError
     ELSE Return(Get(Unwrap(metadata)[key], Str(Lit("unknown"))))

\* The text an f-string renders for a JSON value used as a message.
Rendered(x) == IF x.t = "str" THEN Unwrap(x) ELSE Lit("None")

\* Variant: the backend's message is dropped from the exception.
PhaseFailureGeneric(response, label) ==
  LET error == Get(response.error, Obj(EmptyError))
  IN IF error.t # "obj" THEN AttributeError
     ELSE Raise("RuntimeError", Lit(label) \o Lit("Unknown error"))

\* The "if not response.get('success')" branch of the four phase methods:
\* raise RuntimeError(f"<label>{error.get('message', 'Unknown error')}").
PhaseFailure(response, label) ==
  LET error == Get(response.error, Obj(EmptyError))
  IN IF error.t # "obj" THEN AttributeError
     ELSE Raise("RuntimeError",
                Lit(label) \o Rendered(Get(Unwrap(error).message,
                                           Str(Lit("Unknown error")))))

\* Variant: only an explicit false is a failure.
FailedOnlyIfFalse(response) == Get(response.success, Null) = Bool(FALSE)

\* not response.get("success")
Failed(response) == ~Truthy(Get(response.success, Null))

(***************************************************************************)
(* MCPAgent._exec_mcp.  The command it runs and what it makes of the       *)
(* outcome of subprocess.run and json.loads.                               *)
(***************************************************************************)
Command(prog, cmd, task, server, tools, ops, flag) ==
  [prog |-> prog, cmd |-> cmd, task |-> task, server |-> server,
   tools |-> tools, ops |-> ops, flag |-> flag, json |-> <<>>]

\* Variant: the flag is never put on the command line.
TxFlagDropped(transactional) == ""

\* tx_flag = "--transactional" if transactional else ""
TxFlag(transactional) == IF transactional THEN "--transactional" ELSE ""

DiscoverCommand(prog, task) ==
  Command(prog, "discover", task, "", <<>>, <<>>, "")
SchemaCommand(prog, server, tools) ==
  Command(prog, "tools schema", <<>>, server, tools, <<>>, "")
\* exec_tool: the arguments go on the command line as json.dumps(args).
ExecCommand(prog, server, tool, args) ==
  [Command(prog, "tools exec", <<>>, server, <<tool>>,
           <<[tool |-> tool, args |-> args]>>, "")
     EXCEPT !.json = json_dumps(Obj(args))]
\* batch: the operations go on the command line as json.dumps(operations).
BatchCommand(prog, server, operations, transactional) ==
  [Command(prog, "tools batch", <<>>, server, <<>>, operations,
           TxFlag(transactional))
     EXCEPT !.json = json_dumps(List([i \in 1..Len(operations) |->
                                        OperationJson(operations[i])]))]

_exec_mcp(out) ==
  CASE out.kind = "json" -> Return(out.value)
    [] out.kind = "badjson" ->
         Raise("ValueError", Lit("Failed to parse MCP response: ") \o out.raw)
    [] out.kind = "oserror" ->
         Raise("RuntimeError", Lit("Failed to execute MCP command: ") \o out.raw)

(***************************************************************************)
(* The phase methods, from the return of _exec_mcp on.                     *)
(***************************************************************************)
discover(out) ==
  LET res == _exec_mcp(out)
  IN IF res.raised THEN res
     ELSE IF Value(res).t # "obj" THEN AttributeError
     ELSE LET response == Unwrap(Value(res))
          IN IF Failed(response) THEN PhaseFailure(response, "Discovery failed: ")
             ELSE LET result == Get(response.data, Obj(EmptyDiscovery))
                  IN IF result.t # "obj" THEN AttributeError
                     ELSE IF Get(Unwrap(result).matches, List(<<>>)).t # "list"
                          THEN Raise("TypeError", Lit("object has no len()"))
                     ELSE IF MetadataField(response, "tokensEstimate").raised
                          THEN MetadataField(response, "tokensEstimate")
                     ELSE Return(result)

load_schemas(out) ==
  LET res == _exec_mcp(out)
  IN IF res.raised THEN res
     ELSE IF Value(res).t # "obj" THEN AttributeError
     ELSE LET response == Unwrap(Value(res))
          IN IF Failed(response)
             THEN PhaseFailure(response, "Schema loading failed: ")
             ELSE LET data == Get(response.data, Null)
                      schemas == IF data.t = "list" THEN Unwrap(data) ELSE <<data>>
                  IN IF MetadataField(response, "tokensEstimate").raised
                     THEN MetadataField(response, "tokensEstimate")
                     ELSE Return(schemas)

\* Variant: the whole response is returned instead of its data.
exec_tool_returns_response(out) ==
  LET res == _exec_mcp(out)
  IN IF res.raised THEN res
     ELSE IF Value(res).t # "obj" THEN AttributeError
     ELSE LET response == Unwrap(Value(res))
          IN IF Failed(response) THEN PhaseFailure(response, "Execution failed: ")
             ELSE IF MetadataField(response, "executionTime").raised
                  THEN MetadataField(response, "executionTime")
             ELSE Return(Value(res))

exec_tool(out) ==
  LET res == _exec_mcp(out)
  IN IF res.raised THEN res
     ELSE IF Value(res).t # "obj" THEN AttributeError
     ELSE LET response == Unwrap(Value(res))
          IN IF Failed(response) THEN PhaseFailure(response, "Execution failed: ")
             ELSE IF MetadataField(response, "executionTime").raised
                  THEN MetadataField(response, "executionTime")
             ELSE Return(Get(response.data, Null))

batch(out) ==
  LET res == _exec_mcp(out)
  IN IF res.raised THEN res
     ELSE IF Value(res).t # "obj" THEN AttributeError
     ELSE LET response == Unwrap(Value(res))
          IN IF Failed(response)
             THEN PhaseFailure(response, "Batch execution failed: ")
             ELSE IF MetadataField(response, "executionTime").raised
                  THEN MetadataField(response, "executionTime")
             ELSE Return(Get(response.data, Null))


(***************************************************************************)
(* MCPAgent.execute_task.  The state of one run: the position in           *)
(* execute_task (pc), its local variables, and the record of what it did   *)
(* (calls: commands issued, pending: commands not yet returned, resps:     *)
(* outcomes received, infers: invocations of infer_arguments).  A local    *)
(* that is not yet bound is <<>>, a bound one is <<value>>.  The process   *)
(* that runs it has an exit status (<<>> while it runs) and the lines that *)
(* main wrote to its two streams.                                          *)
(***************************************************************************)
IdleRun ==
  [pc |-> "Idle", task |-> <<>>, calls |-> <<>>, pending |-> <<>>,
   resps |-> <<>>, strategy |-> "none", discovery |-> Null, server |-> "",
   operations |-> <<>>, top_match |-> <<>>, schemas |-> <<>>, infers |-> <<>>,
   error |-> <<>>, result |-> <<>>, exit |-> <<>>, stdout |-> <<>>,
   stderr |-> <<>>]

\* A direct call of a method: the method and its arguments, the commands it
\* sent, the outcomes it received and what it returned or raised.
NoCall ==
  [method |-> "none", state |-> "idle", input |-> <<>>, sent |-> <<>>,
   received |-> <<>>, res |-> <<>>]

\* self._exec_mcp(...) up to subprocess.run: the command is sent.
Issue(st, cmd, pc) ==
  [st EXCEPT !.calls = Append(@, cmd), !.pending = Append(@, cmd), !.pc = pc]

\* An exception leaves execute_task.
Fail(st, res) == [st EXCEPT !.pc = "Failed", !.error = res.exc]

\* subprocess.run returns (or raises) for the pending command.
Receive(st, out) == [st EXCEPT !.pending = Tail(@), !.resps = Append(@, out)]

\* next((s for s in schemas if s["name"] == tool_name), None)
RECURSIVE SchemaFor(_, _, _)
SchemaFor(schemas, i, tool_name) ==
  IF i > Len(schemas) THEN Return(Null)
  ELSE IF schemas[i].t # "obj"
       THEN Raise("TypeError", Lit("object is not subscriptable"))
  ELSE IF Unwrap(schemas[i]).name = tool_name THEN Return(schemas[i])
  ELSE SchemaFor(schemas, i + 1, tool_name)

\* The loop that builds batch_ops: the invocations of infer_arguments made
\* for operations[i..], until one schema lookup raises.
RECURSIVE BatchInfers(_, _, _, _)
BatchInfers(operations, i, schemas, task) ==
  IF i > Len(operations) THEN <<>>
  ELSE IF SchemaFor(schemas, 1, operations[i]).raised THEN <<>>
  ELSE <<Inference(operations[i], Value(SchemaFor(schemas, 1, operations[i])), task)>>
         \o BatchInfers(operations, i + 1, schemas, task)

\* The first exception raised by the loop, if any.
RECURSIVE BatchLoopError(_, _, _)
BatchLoopError(operations, i, schemas) ==
  IF i > Len(operations) THEN <<>>
  ELSE IF SchemaFor(schemas, 1, operations[i]).raised
       THEN <<SchemaFor(schemas, 1, operations[i])>>
  ELSE BatchLoopError(operations, i + 1, schemas)

BatchOpsOf(infers) ==
  [i \in 1..Len(infers) |-> [tool |-> infers[i].tool, args |-> infers[i].args]]

\* execute_task, from its call to the first subprocess.run.
execute_task(st, prog, task) ==
  Issue([st EXCEPT !.task = task], DiscoverCommand(prog, task), "Discovering")

\* Variant: the no-match check is skipped when a batch is suggested.
NoMatchingToolsUnlessBatch(discovery) ==
  /\ ~Truthy(Get(discovery.matches, List(<<>>)))
  /\ ~Truthy(Get(discovery.suggested_batch, Null))

\* matches = discovery.get("matches", []); if not matches: raise ...
NoMatchingTools(discovery) == ~Truthy(Get(discovery.matches, List(<<>>)))

\* Variant: a suggested batch with no operations is not used.
UseBatchIfOperations(discovery) ==
  /\ Truthy(Get(discovery.suggested_batch, Null))
  /\ Len(Unwrap(discovery.suggested_batch).operations) > 0

\* suggested_batch = discovery.get("suggested_batch"); if suggested_batch:
UseBatch(discovery) == Truthy(Get(discovery.suggested_batch, Null))

\* Variant: the match of highest confidence is taken.
TopMatchByConfidence(matches) ==
  matches[CHOOSE i \in 1..Len(matches) :
            \A j \in 1..Len(matches) :
              \/ matches[j].confidence < matches[i].confidence
              \/ (matches[j].confidence = matches[i].confidence /\ i <= j)]

\* top_match = matches[0]
TopMatch(matches) == matches[1]

\* Variant: only the operations whose tool is among the matches are kept.
BatchPlanAmongMatches(discovery) ==
  LET suggested_batch == Unwrap(discovery.suggested_batch)
      matches == Unwrap(discovery.matches)
  IN [server |-> suggested_batch.server,
      operations |->
        SelectSeq(suggested_batch.operations,
                  LAMBDA t : \E i \in DOMAIN matches : matches[i].tool = t)]

\* server = suggested_batch['server']; operations = suggested_batch['operations']
BatchPlan(discovery) ==
  LET suggested_batch == Unwrap(discovery.suggested_batch)
  IN [server |-> suggested_batch.server,
      operations |-> suggested_batch.operations]

\* execute_task, from the return of the discover command to the next
\* subprocess.run or to the exception.
after_discover(st0, prog, out) ==
  LET st == Receive(st0, out)
      res == discover(out)
  IN IF res.raised THEN Fail(st, res)
     ELSE
       LET discovery == Unwrap(Value(res))
           st1 == [st EXCEPT !.discovery = Value(res)]
       IN IF NoMatchingTools(discovery)
          THEN Fail(st1, Raise("RuntimeError",
                               Lit("No matching tools found for the task")))
          ELSE IF UseBatch(discovery)
          THEN LET plan == BatchPlan(discovery)
               IN Issue([st1 EXCEPT !.strategy = "batch", !.server = plan.server,
                                    !.operations = plan.operations],
                        SchemaCommand(prog, plan.server, plan.operations),
                        "BatchPlanning")
          ELSE LET top_match == TopMatch(Unwrap(discovery.matches))
               IN Issue([st1 EXCEPT !.strategy = "single",
                                    !.top_match = <<top_match>>],
                        SchemaCommand(prog, top_match.server, <<top_match.tool>>),
                        "SinglePlanning")

\* execute_task, from the return of the schema command to the next
\* subprocess.run or to the exception.
after_schema(st0, prog, out) ==
  LET st == Receive(st0, out)
      res == load_schemas(out)
  IN IF res.raised THEN Fail(st, res)
     ELSE
       LET schemas == Value(res)
           st2 == [st EXCEPT !.schemas = <<schemas>>]
       IN IF st.strategy = "batch"
          THEN LET infers == BatchInfers(st.operations, 1, schemas, st.task)
                   err == BatchLoopError(st.operations, 1, schemas)
                   st1 == [st2 EXCEPT !.infers = infers]
               IN IF err # <<>> THEN Fail(st1, err[1])
                  ELSE Issue(st1,
                             BatchCommand(prog, st.server, BatchOpsOf(infers), FALSE),
                             "Executing")
          ELSE LET top_match == st.top_match[1]
               IN IF Len(schemas) = 0
                  THEN Fail(st2, Raise("IndexError", Lit("list index out of range")))
                  ELSE LET inf == Inference(top_match.tool, schemas[1], st.task)
                       IN Issue([st2 EXCEPT !.infers = <<inf>>],
                                ExecCommand(prog, top_match.server,
                                            top_match.tool, inf.args),
                                "Executing")

\* Variant: a failed batch falls back to executing the first match alone.
after_exec_fallback(st0, out) ==
  LET st == Receive(st0, out)
      res == IF st.strategy = "batch" THEN batch(out) ELSE exec_tool(out)
      first == Unwrap(Unwrap(st.discovery).matches)[1]
  IN IF res.raised /\ st.strategy = "batch"
     THEN Issue([st EXCEPT !.strategy = "single", !.top_match = <<first>>],
                ExecCommand(st.calls[1].prog, first.server, first.tool, NoArgs),
                "Executing")
     ELSE IF res.raised THEN Fail(st, res)
     ELSE [st EXCEPT !.pc = "Done", !.result = res.val]

\* execute_task, from the return of the execution command to its own return.
after_exec(st0, out) ==
  LET st == Receive(st0, out)
      res == IF st.strategy = "batch" THEN batch(out) ELSE exec_tool(out)
  IN IF res.raised THEN Fail(st, res)
     ELSE [st EXCEPT !.pc = "Done", !.result = res.val]

\* Variant: the handler reports the error and returns without sys.exit(1).
main_returns_after_error(st) ==
  CASE st.pc = "Done" ->
         [st EXCEPT !.stdout = <<Lit("=== RESULT ==="), json_dumps(st.result[1])>>,
                    !.exit = <<0>>]
    [] st.pc = "Failed" ->
         [st EXCEPT !.stderr = <<Lit("=== ERROR ==="), st.error[1].msg>>,
                    !.exit = <<0>>]
    [] OTHER -> st

\* main, from the return of execute_task (or from its exception) on.  The
\* line breaks and the indentation that indent=2 adds between the lexemes
\* of the JSON text are not written down.
main(st) ==
  CASE st.pc = "Done" ->
         [st EXCEPT !.stdout = <<Lit("=== RESULT ==="), json_dumps(st.result[1])>>,
                    !.exit = <<0>>]
    [] st.pc = "Failed" ->
         [st EXCEPT !.stderr = <<Lit("=== ERROR ==="), st.error[1].msg>>,
                    !.exit = <<1>>]
    [] OTHER -> st

(***************************************************************************)
(* The environment: the tasks given to the agent and the outcomes the      *)
(* backend command can produce.                                            *)
(***************************************************************************)
Agents == {"a1", "a2"}
MainAgent == "a1"
DefaultCommand == "deno run --allow-all src/cli.ts"

TaskEmpty == <<>>
TaskReadNotes == <<"read", " ", "the", " ", "file", " ", "'", "notes.txt", "'">>
TaskNavigate == <<"open", " ", "https://", "a.io", " ", "and", " ", "shoot">>
Tasks == {TaskEmpty, TaskReadNotes, TaskNavigate}

ToolMatch(server, tool, confidence) ==
  [server |-> server, tool |-> tool, confidence |-> confidence]
MatchPool == {ToolMatch("fs", "read_file", 5), ToolMatch("browser", "browser_navigate", 9)}
BatchServers == {"browser", "fs"}
BatchTools == {"browser_navigate", "browser_screenshot"}
SchemaNames == {"browser_navigate", "read_file"}
Payloads == {Lit("page loaded"), Lit("file contents")}
Messages == {Lit("server unreachable"), Lit("tool not found")}

SuggestedBatch(server, operations) ==
  Obj([server |-> server, operations |-> operations])
ToolSchema(name) == Obj([name |-> name])

MatchesValues ==
  {Absent, Null} \cup {List(m) : m \in SeqUpTo(MatchPool, MaxMatches)}
BatchValues ==
  {Absent, Null} \cup
  {SuggestedBatch(sv, ops) : sv \in BatchServers, ops \in SeqUpTo(BatchTools, MaxOps)}
DiscoveryData ==
  {Absent, Null} \cup
  {Obj([matches |-> m, suggested_batch |-> b]) : m \in MatchesValues, b \in BatchValues}
SchemaData ==
  {Absent, Null} \cup {ToolSchema(n) : n \in SchemaNames} \cup
  {List(sq) : sq \in SeqUpTo({ToolSchema(n) : n \in SchemaNames}, MaxSchemas)}
ExecData == {Absent, Null} \cup {Str(p) : p \in Payloads}

\* Metadata of the shapes the envelope documents (missing, empty, filled),
\* and a null metadata field.
FilledMetadata == Obj([tokensEstimate |-> Num(120), executionTime |-> Num(35)])
DocumentedMetadata == {Absent, Obj(EmptyMetadata), FilledMetadata}
MetadataValues == DocumentedMetadata \cup {Null}

ErrorValues ==
  {Absent, Null, Obj(EmptyError)} \cup {Obj([message |-> Str(m)]) : m \in Messages}
FailureFlags == {Bool(FALSE), Null, Absent}

\* A sample of the data of each phase, used where another field varies.
SampleDiscovery ==
  {Obj([matches |-> List(<<ToolMatch("fs", "read_file", 5)>>),
        suggested_batch |-> Absent]),
   Obj([matches |-> List(<<ToolMatch("browser", "browser_navigate", 9)>>),
        suggested_batch |-> SuggestedBatch("browser", <<"browser_navigate">>)]),
   Obj([matches |-> List(<<>>),
        suggested_batch |-> SuggestedBatch("browser", <<"browser_navigate">>)])}
SampleSchema == {List(<<ToolSchema("browser_navigate")>>)}
SampleExec == {Str(Lit("page loaded"))}

\* Envelopes that report success: every data with no metadata, and the
\* sample data with every metadata.
Successes(data, sample) ==
  {Envelope(Bool(TRUE), d, Absent, Absent) : d \in data} \cup
  {Envelope(Bool(TRUE), d, Absent, m) : d \in sample, m \in MetadataValues}

\* Envelopes that do not report success.
Failures(sample) ==
  {Envelope(f, Absent, Obj([message |-> Str(Lit("server unreachable"))]), Absent) :
     f \in FailureFlags} \cup
  {Envelope(Bool(FALSE), d, e, Absent) : d \in {Absent} \cup sample, e \in ErrorValues} \cup
  {Envelope(f, d, Absent, Absent) : f \in {Null, Absent}, d \in sample}

Json(value) == [kind |-> "json", raw |-> <<>>, value |-> value]
\* subprocess.run raised; stdout is not JSON; stdout is JSON but no object.
BrokenOutcomes ==
  {[kind |-> "oserror", raw |-> Lit("No such file or directory"), value |-> Null],
   [kind |-> "badjson", raw |-> Lit("command not found"), value |-> Null],
   Json(List(<<>>))}

Outcomes(data, sample) ==
  {Json(Obj(e)) : e \in Successes(data, sample) \cup Failures(sample)} \cup
  BrokenOutcomes

DiscoverOutcomes == Outcomes(DiscoveryData, SampleDiscovery)
SchemaOutcomes == Outcomes(SchemaData, SampleSchema)
ExecOutcomes == Outcomes(ExecData, SampleExec)

(***************************************************************************)
(* The state machine.                                                      *)
(***************************************************************************)
Init ==
  /\ mcp_command = [a \in Agents |-> DefaultCommand]
  /\ run = [a \in Agents |-> IdleRun]
  /\ call = [a \in Agents |-> NoCall]

\* main: agent.execute_task(task)
Start(a, task) ==
  /\ run[a].pc = "Idle"
  /\ run' = [run EXCEPT ![a] = execute_task(@, mcp_command[a], task)]
  /\ UNCHANGED <<mcp_command, call>>

\* The discover command returns.
DiscoverReturns(a, out) ==
  /\ run[a].pc = "Discovering"
  /\ run' = [run EXCEPT ![a] = main(after_discover(@, mcp_command[a], out))]
  /\ UNCHANGED <<mcp_command, call>>

\* Variant: the task is kept in one place for all agents, where the later
\* steps of a run read what the other run wrote last.
SchemaReturnsSharedTask(a, out) ==
  /\ run[a].pc \in {"BatchPlanning", "SinglePlanning"}
  /\ run' = [run EXCEPT ![a] =
       main(after_schema([@ EXCEPT !.task = run[CHOOSE b \in Agents : b # a].task],
                         mcp_command[a], out))]
  /\ UNCHANGED <<mcp_command, call>>

\* The schema command returns.
SchemaReturns(a, out) ==
  /\ run[a].pc \in {"BatchPlanning", "SinglePlanning"}
  /\ run' = [run EXCEPT ![a] = main(after_schema(@, mcp_command[a], out))]
  /\ UNCHANGED <<mcp_command, call>>

\* The execution command (single or batch) returns.
ExecReturns(a, out) ==
  /\ run[a].pc = "Executing"
  /\ run' = [run EXCEPT ![a] = main(after_exec(@, out))]
  /\ UNCHANGED <<mcp_command, call>>

Next ==
  \/ \E task \in Tasks : Start(MainAgent, task)
  \/ \E out \in DiscoverOutcomes : DiscoverReturns(MainAgent, out)
  \/ \E out \in SchemaOutcomes : SchemaReturns(MainAgent, out)
  \/ \E out \in ExecOutcomes : ExecReturns(MainAgent, out)

Spec == Init /\ [][Next]_vars


(***************************************************************************)
(* Reading the record of a run.                                            *)
(***************************************************************************)
Terminal(st) == st.pc \in {"Done", "Failed"}
CommandsOf(st, kinds) == {i \in 1..Len(st.calls) : st.calls[i].cmd \in kinds}
LaterCommands == {"tools schema", "tools exec", "tools batch"}

\* The outcome is an envelope, i.e. a JSON object.
IsEnvelope(out) == out.kind = "json" /\ out.value.t = "obj"
EnvelopeOf(out) == Unwrap(out.value)

\* The envelope reports success and its metadata has a documented shape.
ReportsSuccess(out) ==
  /\ IsEnvelope(out)
  /\ EnvelopeOf(out).success = Bool(TRUE)
  /\ EnvelopeOf(out).metadata \in DocumentedMetadata

\* The matches and the suggested batch carried by a discovery envelope.
MatchesIn(out) ==
  IF EnvelopeOf(out).data.t = "obj" THEN Unwrap(EnvelopeOf(out).data).matches
  ELSE Absent
BatchIn(out) ==
  IF EnvelopeOf(out).data.t = "obj"
  THEN Unwrap(EnvelopeOf(out).data).suggested_batch
  ELSE Absent

\* A successful discovery response with no match: the data is missing or
\* an object, and its matches are missing or the empty list.
DiscoveredNothing(out) ==
  /\ ReportsSuccess(out)
  /\ EnvelopeOf(out).data.t \in {"absent", "obj"}
  /\ MatchesIn(out) \in {Absent, List(<<>>)}

\* A successful discovery response with at least one match.
DiscoveredSomething(out) ==
  /\ ReportsSuccess(out)
  /\ MatchesIn(out).t = "list"
  /\ Len(Unwrap(MatchesIn(out))) > 0

NoMatchError ==
  [type |-> "RuntimeError", msg |-> Lit("No matching tools found for the task")]

(***************************************************************************)
(* C1.  When the discover command succeeds with an empty or missing list   *)
(* of matches, the run has failed with the no-match error and the discover *)
(* command is the only command it has ever sent, whether or not the        *)
(* response suggests a batch.                                              *)
(***************************************************************************)
C1_NoMatchStops ==
  \A a \in Agents :
    (Len(run[a].resps) >= 1 /\ DiscoveredNothing(run[a].resps[1])) =>
      /\ run[a].pc = "Failed"
      /\ run[a].error = <<NoMatchError>>
      /\ CommandsOf(run[a], LaterCommands) = {}
      /\ Len(run[a].calls) = 1
      /\ run[a].pending = <<>>

C1_Witness ==
  \E a \in Agents :
    /\ Len(run[a].resps) >= 1
    /\ DiscoveredNothing(run[a].resps[1])
    /\ BatchIn(run[a].resps[1]).t = "obj"
    /\ run[a].pc = "Failed"


(***************************************************************************)
(* C2.  After a successful discovery with at least one match: if the       *)
(* response carries a suggested batch (even one with no operations) the    *)
(* run is on the batch strategy, its second command is the schema command  *)
(* of the batch and it has sent no single-tool execution; if it carries    *)
(* none, the run is on the single strategy with the first match as         *)
(* returned, its second command is the schema command for that match, any  *)
(* execution is of that match and it has sent no batch execution.          *)
(***************************************************************************)
C2_StrategySelection ==
  \A a \in Agents :
    (Len(run[a].resps) >= 1 /\ DiscoveredSomething(run[a].resps[1])) =>
      LET st == run[a]
          sb == BatchIn(st.resps[1])
          first == Unwrap(MatchesIn(st.resps[1]))[1]
      IN /\ Len(st.calls) >= 2
         /\ st.calls[2].cmd = "tools schema"
         /\ IF sb.t = "obj"
            THEN /\ st.strategy = "batch"
                 /\ st.pc \in {"BatchPlanning", "Executing", "Done", "Failed"}
                 /\ st.calls[2].server = Unwrap(sb).server
                 /\ st.calls[2].tools = Unwrap(sb).operations
                 /\ st.top_match = <<>>
                 /\ CommandsOf(st, {"tools exec"}) = {}
            ELSE /\ st.strategy = "single"
                 /\ st.pc \in {"SinglePlanning", "Executing", "Done", "Failed"}
                 /\ st.top_match = <<first>>
                 /\ st.calls[2].server = first.server
                 /\ st.calls[2].tools = <<first.tool>>
                 /\ \A i \in CommandsOf(st, {"tools exec"}) :
                      /\ st.calls[i].server = first.server
                      /\ st.calls[i].tools = <<first.tool>>
                 /\ CommandsOf(st, {"tools batch"}) = {}

\* A batch with no operations was suggested and the batch was executed.
C2_Witness ==
  \E a \in Agents :
    /\ Len(run[a].resps) >= 1
    /\ DiscoveredSomething(run[a].resps[1])
    /\ BatchIn(run[a].resps[1]).t = "obj"
    /\ Unwrap(BatchIn(run[a].resps[1])).operations = <<>>
    /\ run[a].pc = "Done"
    /\ CommandsOf(run[a], {"tools batch"}) # {}

\* The first match has a lower confidence than the second and is executed.
C2_UnsortedReached ==
  \E a \in Agents :
    /\ Len(run[a].resps) >= 1
    /\ DiscoveredSomething(run[a].resps[1])
    /\ BatchIn(run[a].resps[1]).t # "obj"
    /\ LET ms == Unwrap(MatchesIn(run[a].resps[1]))
       IN Len(ms) >= 2 /\ ms[1].confidence < ms[2].confidence
    /\ CommandsOf(run[a], {"tools exec"}) # {}


(***************************************************************************)
(* C3.  The commands of a run are sent one at a time and in order: the     *)
(* calls are a prefix of discover, schema, execution (single or batch);    *)
(* a command is sent only after every earlier one has returned, so at most *)
(* one is pending; and the execution command is sent only after the        *)
(* discover command and then the schema command returned an envelope with  *)
(* success true.                                                           *)
(***************************************************************************)
SaysSuccess(out) == IsEnvelope(out) /\ EnvelopeOf(out).success = Bool(TRUE)

C3_SequentialPhases ==
  \A a \in Agents :
    LET st == run[a]
    IN /\ Len(st.pending) <= 1
       /\ Len(st.calls) <= 3
       /\ Len(st.calls) = Len(st.resps) + Len(st.pending)
       /\ st.pending # <<>> => st.pending[1] = st.calls[Len(st.calls)]
       /\ Len(st.calls) >= 1 => st.calls[1].cmd = "discover"
       /\ Len(st.calls) >= 2 =>
            /\ st.calls[2].cmd = "tools schema"
            /\ SaysSuccess(st.resps[1])
       /\ Len(st.calls) >= 3 =>
            /\ st.calls[3].cmd \in {"tools exec", "tools batch"}
            /\ SaysSuccess(st.resps[1])
            /\ SaysSuccess(st.resps[2])

\* The execution command is outstanding.
C3_Witness ==
  \E a \in Agents :
    /\ run[a].pc = "Executing"
    /\ Len(run[a].calls) = 3
    /\ Len(run[a].resps) = 2
    /\ Len(run[a].pending) = 1

(***************************************************************************)
(* C4.  Once a command of a run has failed (subprocess error, output that  *)
(* is not a JSON object, or an envelope whose success is not true) the run *)
(* is Failed, has no result, and the failed command is the last command it *)
(* sent: nothing is sent again or afterwards, so a failed batch is         *)
(* followed neither by a single-tool execution nor by another batch.       *)
(***************************************************************************)
CallFailed(out) == ~SaysSuccess(out)

C4_FailFast ==
  \A a \in Agents :
    \A i \in 1..Len(run[a].resps) :
      CallFailed(run[a].resps[i]) =>
        /\ run[a].pc = "Failed"
        /\ run[a].error # <<>>
        /\ run[a].result = <<>>
        /\ Len(run[a].resps) = i
        /\ Len(run[a].calls) = i
        /\ run[a].pending = <<>>
        /\ \A j \in 1..(i - 1) : run[a].calls[j].cmd # run[a].calls[i].cmd
        /\ run[a].strategy = "batch" => CommandsOf(run[a], {"tools exec"}) = {}

\* The batch execution failed.
C4_Witness ==
  \E a \in Agents :
    /\ Len(run[a].resps) = 3
    /\ CallFailed(run[a].resps[3])
    /\ run[a].calls[3].cmd = "tools batch"
    /\ Len(run[a].calls[3].ops) = 2
    /\ run[a].pc = "Failed"


(***************************************************************************)
(* The schemas a schema envelope carries: the elements of a list, the      *)
(* single object, or none when the data is missing or null.                *)
(***************************************************************************)
ReturnedSchemas(out) ==
  LET data == EnvelopeOf(out).data
  IN CASE data.t = "list" -> Unwrap(data)
       [] data.t = "obj" -> <<data>>
       [] OTHER -> <<>>

HasSchema(schemas, tool) ==
  \E i \in 1..Len(schemas) : Unwrap(schemas[i]).name = tool

(***************************************************************************)
(* C5.  After a successful schema response that carries fewer schemas than *)
(* tools were requested (an empty list and a missing data included), the   *)
(* run has not failed before the execution command: the execution command  *)
(* has been sent, infer_arguments has been invoked once for every          *)
(* requested tool, with no schema for each tool that has none, and the     *)
(* execution carries one operation per requested tool.                     *)
(***************************************************************************)
C5_PartialSchemasTolerated ==
  \A a \in Agents :
    LET st == run[a]
    IN (/\ Len(st.resps) >= 2
        /\ DiscoveredSomething(st.resps[1])
        /\ ReportsSuccess(st.resps[2])
        /\ Len(ReturnedSchemas(st.resps[2])) < Len(st.calls[2].tools)) =>
         LET requested == st.calls[2].tools
             returned == ReturnedSchemas(st.resps[2])
         IN /\ Len(st.calls) = 3
            /\ st.calls[3].cmd \in {"tools exec", "tools batch"}
            /\ Len(st.calls[3].ops) = Len(requested)
            /\ Len(st.infers) = Len(requested)
            /\ \A i \in 1..Len(st.infers) :
                 /\ st.infers[i].tool = requested[i]
                 /\ ~HasSchema(returned, requested[i]) => st.infers[i].schema = Null
            /\ st.pc = "Failed" => Len(st.resps) = 3

(***************************************************************************)
(* C6.  After a successful schema response, the sequence load_schemas      *)
(* returned holds exactly the schemas the response carries, in order: the  *)
(* k elements of a list, the one single object, and no entry when the      *)
(* response carries no schema.                                             *)
(***************************************************************************)
C6_SchemasNormalized ==
  \A a \in Agents :
    (Len(run[a].resps) >= 2 /\ ReportsSuccess(run[a].resps[2])) =>
      run[a].schemas = <<ReturnedSchemas(run[a].resps[2])>>


(***************************************************************************)
(* The last outcome a run received is an envelope with success false and   *)
(* an error object whose message is a string.                              *)
(***************************************************************************)
BackendRefused(st) ==
  /\ Len(st.resps) >= 1
  /\ IsEnvelope(st.resps[Len(st.resps)])
  /\ EnvelopeOf(st.resps[Len(st.resps)]).success = Bool(FALSE)
  /\ EnvelopeOf(st.resps[Len(st.resps)]).error.t = "obj"
  /\ Unwrap(EnvelopeOf(st.resps[Len(st.resps)]).error).message.t = "str"

BackendMessage(st) ==
  Unwrap(Unwrap(EnvelopeOf(st.resps[Len(st.resps)]).error).message)

\* The label with which each command's method starts its failure message.
PhaseLabel(cmd) ==
  CASE cmd = "discover" -> "Discovery failed: "
    [] cmd = "tools schema" -> "Schema loading failed: "
    [] cmd = "tools exec" -> "Execution failed: "
    [] cmd = "tools batch" -> "Batch execution failed: "

(***************************************************************************)
(* C7, as claimed.  When a command returns success false with the message  *)
(* m, the message of the run's error equals m.                             *)
(***************************************************************************)
C7_MessageEqualsBackendMessage ==
  \A a \in Agents :
    BackendRefused(run[a]) =>
      /\ run[a].pc = "Failed"
      /\ run[a].error # <<>>
      /\ run[a].error[1].msg = BackendMessage(run[a])

(***************************************************************************)
(* C7, amended.  When a command returns success false with the message m,  *)
(* the run has failed with a RuntimeError whose message is the label of    *)
(* the phase of that command followed by m, unchanged.                     *)
(***************************************************************************)
C7_MessageIsLabelThenBackendMessage ==
  \A a \in Agents :
    BackendRefused(run[a]) =>
      /\ run[a].pc = "Failed"
      /\ run[a].error # <<>>
      /\ run[a].error[1].type = "RuntimeError"
      /\ run[a].error[1].msg =
           Lit(PhaseLabel(run[a].calls[Len(run[a].resps)].cmd)) \o BackendMessage(run[a])

\* The single-tool execution was refused with "server unreachable".
C7_Witness ==
  \E a \in Agents :
    /\ BackendRefused(run[a])
    /\ Len(run[a].resps) = 3
    /\ run[a].calls[3].cmd = "tools exec"
    /\ BackendMessage(run[a]) = Lit("server unreachable")
    /\ run[a].error = <<[type |-> "RuntimeError",
                         msg |-> <<"Execution failed: ", "server unreachable">>]>>


(***************************************************************************)
(* Two runs of the same task against responses that differ in their        *)
(* metadata only.  Both agents are given the same task, and each command   *)
(* of the pair is answered by the same outcome, except that each agent's   *)
(* envelope gets a metadata of its own.                                    *)
(***************************************************************************)
WithMetadata(out, metadata) ==
  IF IsEnvelope(out)
  THEN Json(Obj([EnvelopeOf(out) EXCEPT !.metadata = metadata]))
  ELSE out

SameButMetadata(o1, o2) == WithMetadata(o1, Absent) = WithMetadata(o2, Absent)

HasDocumentedMetadata(out) ==
  IsEnvelope(out) => EnvelopeOf(out).metadata \in DocumentedMetadata

Refusal ==
  Json(Obj(Envelope(Bool(FALSE), Absent,
                    Obj([message |-> Str(Lit("server unreachable"))]), Absent)))
Accepted(data) == {Json(Obj(Envelope(Bool(TRUE), d, Absent, Absent))) : d \in data}

PairDiscoverOutcomes == Accepted(SampleDiscovery) \cup {Refusal} \cup BrokenOutcomes
PairSchemaOutcomes ==
  Accepted({List(<<ToolSchema("browser_navigate")>>), List(<<>>), Null,
            ToolSchema("read_file")}) \cup {Refusal} \cup BrokenOutcomes
PairExecOutcomes == Accepted(ExecData) \cup {Refusal} \cup BrokenOutcomes

Other(a) == CHOOSE b \in Agents : b # a

StartBoth(task) ==
  /\ \A a \in Agents : run[a].pc = "Idle"
  /\ run' = [a \in Agents |-> execute_task(run[a], mcp_command[a], task)]
  /\ UNCHANGED <<mcp_command, call>>

DiscoverBoth(out, meta) ==
  /\ \A a \in Agents : run[a].pc = "Discovering"
  /\ run' = [a \in Agents |->
               main(after_discover(run[a], mcp_command[a],
                                   WithMetadata(out, meta[a])))]
  /\ UNCHANGED <<mcp_command, call>>

SchemaBoth(out, meta) ==
  /\ \A a \in Agents : run[a].pc \in {"BatchPlanning", "SinglePlanning"}
  /\ run' = [a \in Agents |->
               main(after_schema(run[a], mcp_command[a],
                                 WithMetadata(out, meta[a])))]
  /\ UNCHANGED <<mcp_command, call>>

ExecBoth(out, meta) ==
  /\ \A a \in Agents : run[a].pc = "Executing"
  /\ run' = [a \in Agents |->
               main(after_exec(run[a], WithMetadata(out, meta[a])))]
  /\ UNCHANGED <<mcp_command, call>>

NextMeta ==
  \/ \E task \in Tasks : StartBoth(task)
  \/ \E out \in PairDiscoverOutcomes, meta \in [Agents -> MetadataValues] :
       DiscoverBoth(out, meta)
  \/ \E out \in PairSchemaOutcomes, meta \in [Agents -> MetadataValues] :
       SchemaBoth(out, meta)
  \/ \E out \in PairExecOutcomes, meta \in [Agents -> MetadataValues] :
       ExecBoth(out, meta)

SpecMeta == Init /\ [][NextMeta]_vars

(***************************************************************************)
(* C8.  Two runs of the same task that have received the same number of    *)
(* outcomes, pairwise identical except for the metadata of the envelopes   *)
(* (each metadata being missing, empty or filled), have sent the same      *)
(* commands and are at the same position with the same error or the same   *)
(* result.                                                                 *)
(***************************************************************************)
C8_MetadataIsAdvisory ==
  \A a \in Agents, b \in Agents :
    (/\ run[a].task = run[b].task
     /\ run[a].pc # "Idle" /\ run[b].pc # "Idle"
     /\ Len(run[a].resps) = Len(run[b].resps)
     /\ \A i \in 1..Len(run[a].resps) :
          /\ SameButMetadata(run[a].resps[i], run[b].resps[i])
          /\ HasDocumentedMetadata(run[a].resps[i])
          /\ HasDocumentedMetadata(run[b].resps[i])) =>
      /\ run[a].calls = run[b].calls
      /\ run[a].pending = run[b].pending
      /\ run[a].pc = run[b].pc
      /\ run[a].strategy = run[b].strategy
      /\ run[a].error = run[b].error
      /\ run[a].result = run[b].result

\* Both runs are done; one saw filled metadata on every envelope, the other
\* saw none at all.
C8_Witness ==
  \E a \in Agents :
    LET b == Other(a)
    IN /\ run[a].pc = "Done" /\ run[b].pc = "Done"
       /\ Len(run[a].resps) = 3 /\ Len(run[b].resps) = 3
       /\ \A i \in 1..3 :
            /\ SameButMetadata(run[a].resps[i], run[b].resps[i])
            /\ EnvelopeOf(run[a].resps[i]).metadata = FilledMetadata
            /\ EnvelopeOf(run[b].resps[i]).metadata = Absent
       /\ run[a].result = run[b].result


(***************************************************************************)
(* The discovery response of a run puts it on the batch branch / on the    *)
(* single branch.                                                          *)
(***************************************************************************)
OnBatchBranch(st) ==
  /\ Len(st.resps) >= 1
  /\ DiscoveredSomething(st.resps[1])
  /\ BatchIn(st.resps[1]).t = "obj"

OnSingleBranch(st) ==
  /\ Len(st.resps) >= 1
  /\ DiscoveredSomething(st.resps[1])
  /\ BatchIn(st.resps[1]).t # "obj"

SchemaSucceeded(st) == Len(st.resps) >= 2 /\ ReportsSuccess(st.resps[2])

\* The batch command of the run is the one the suggested batch calls for.
BatchShape(a) ==
  LET st == run[a]
      sb == Unwrap(BatchIn(st.resps[1]))
      n == Len(sb.operations)
  IN /\ Len(st.infers) = n
     /\ \A i \in 1..n : st.infers[i].tool = sb.operations[i]
     /\ Cardinality(CommandsOf(st, {"tools batch"})) = 1
     /\ CommandsOf(st, {"tools exec"}) = {}
     /\ st.calls[3] =
          BatchCommand(mcp_command[a], sb.server,
                       [i \in 1..n |-> [tool |-> sb.operations[i],
                                        args |-> st.infers[i].args]],
                       FALSE)

\* The exec command of the run is the one the first match calls for.
SingleShape(a) ==
  LET st == run[a]
      first == Unwrap(MatchesIn(st.resps[1]))[1]
  IN /\ Len(st.infers) = 1
     /\ st.infers[1].tool = first.tool
     /\ Cardinality(CommandsOf(st, {"tools exec"})) = 1
     /\ CommandsOf(st, {"tools batch"}) = {}
     /\ st.calls[3] =
          ExecCommand(mcp_command[a], first.server, first.tool, st.infers[1].args)

(***************************************************************************)
(* C9.  On the batch branch the run sends exactly one schema command, to   *)
(* the server of the suggested batch and naming all its operations; and    *)
(* once the schema command has returned success it has built one operation *)
(* per suggested operation, in order, and has sent exactly one batch       *)
(* command, to the same server, with those operations and not              *)
(* transactional.                                                          *)
(***************************************************************************)
C9_BatchBranchShape ==
  \A a \in Agents :
    OnBatchBranch(run[a]) =>
      LET st == run[a]
          sb == Unwrap(BatchIn(st.resps[1]))
      IN /\ Cardinality(CommandsOf(st, {"tools schema"})) = 1
         /\ st.calls[2] = SchemaCommand(mcp_command[a], sb.server, sb.operations)
         /\ SchemaSucceeded(st) => (Len(st.calls) = 3 /\ BatchShape(a))

\* C9, for the runs that reached the execution: the batch command has the
\* claimed shape whenever it was sent.
C9_ShapeWhenExecuted ==
  \A a \in Agents :
    (OnBatchBranch(run[a]) /\ Len(run[a].calls) = 3) => BatchShape(a)

\* Scenario B: navigate and screenshot, executed as one batch of two.
C9_ScenarioReached ==
  \E a \in Agents :
    /\ OnBatchBranch(run[a])
    /\ run[a].pc = "Done"
    /\ run[a].calls[2].tools = <<"browser_navigate", "browser_screenshot">>
    /\ Len(run[a].calls[3].ops) = 2
    /\ run[a].calls[3].ops[1].tool = "browser_navigate"
    /\ run[a].calls[3].ops[2].tool = "browser_screenshot"
    /\ run[a].calls[3].flag = ""

(***************************************************************************)
(* C10.  On the single branch the run sends exactly one schema command, to *)
(* the first match's server and naming only the first match's tool; and    *)
(* once the schema command has returned success it has invoked             *)
(* infer_arguments exactly once and has sent exactly one exec command, for *)
(* the same server and tool, with the inferred arguments.                  *)
(***************************************************************************)
C10_SingleBranchShape ==
  \A a \in Agents :
    OnSingleBranch(run[a]) =>
      LET st == run[a]
          first == Unwrap(MatchesIn(st.resps[1]))[1]
      IN /\ Cardinality(CommandsOf(st, {"tools schema"})) = 1
         /\ st.calls[2] = SchemaCommand(mcp_command[a], first.server, <<first.tool>>)
         /\ SchemaSucceeded(st) => (Len(st.calls) = 3 /\ SingleShape(a))

\* C10, for the runs that reached the execution: the exec command has the
\* claimed shape whenever it was sent.
C10_ShapeWhenExecuted ==
  \A a \in Agents :
    (OnSingleBranch(run[a]) /\ Len(run[a].calls) = 3) => SingleShape(a)

\* Scenario A: read the file 'notes.txt', executed as read_file on notes.txt.
C10_ScenarioReached ==
  \E a \in Agents :
    /\ OnSingleBranch(run[a])
    /\ run[a].pc = "Done"
    /\ run[a].task = TaskReadNotes
    /\ run[a].calls[3] =
         ExecCommand(mcp_command[a], "fs", "read_file",
                     [k \in {"path"} |-> Str(<<"notes.txt">>)])


(***************************************************************************)
(* Direct calls of the methods of the class, one call per agent.           *)
(***************************************************************************)
Called(method, input, sent) ==
  [method |-> method, state |-> IF sent = <<>> THEN "returned" ELSE "waiting",
   input |-> input, sent |-> sent, received |-> <<>>, res |-> <<>>]

\* The method's command returned and the method returned or raised.
Completed(c, out, res) ==
  [c EXCEPT !.state = IF res.raised THEN "raised" ELSE "returned",
            !.received = Append(@, out), !.res = <<res>>]

\* The words a task can be made of, and the tasks a caller can pass.
TaskLexemes == {"https://", " ", "'", "\"", "\\", "a.io"}
InferTasks == SeqUpTo(TaskLexemes, MaxTaskLen)
InferTools ==
  {"browser_navigate", "browser_screenshot", "read_file", "write_file", ""}
InferSchemas == {Null, ToolSchema("read_file")}

\* Every operation {"tool": ..., "args": ...} that can be built from the
\* arguments infer_arguments returns.
BuiltOperations ==
  {[tool |-> t, args |-> infer_arguments(t, Null, task)] :
     t \in InferTools, task \in InferTasks}

\* The operations a caller can pass to batch.
ApiOperations ==
  SeqUpTo({[tool |-> t, args |-> infer_arguments(t, Null, task)] :
             t \in BatchTools, task \in Tasks}, MaxOps)
  \cup {<<op>> : op \in BuiltOperations}

\* agent.batch(server, operations, transactional), up to subprocess.run
CallBatch(a, server, operations, transactional) ==
  /\ call[a].state = "idle"
  /\ call' = [call EXCEPT ![a] =
       Called("batch",
              [server |-> server, operations |-> operations,
               transactional |-> transactional],
              <<BatchCommand(mcp_command[a], server, operations, transactional)>>)]
  /\ UNCHANGED <<mcp_command, run>>

\* agent.batch(...), from the return of subprocess.run on
BatchReturns(a, out) ==
  /\ call[a].method = "batch" /\ call[a].state = "waiting"
  /\ call' = [call EXCEPT ![a] = Completed(@, out, batch(out))]
  /\ UNCHANGED <<mcp_command, run>>

\* agent.infer_arguments(tool_name, schema, task)
CallInfer(a, tool_name, schema, task) ==
  /\ call[a].state = "idle"
  /\ call' = [call EXCEPT ![a] =
       [Called("infer_arguments",
               [tool_name |-> tool_name, schema |-> schema, task |-> task], <<>>)
          EXCEPT !.res = <<Return(infer_arguments(tool_name, schema, task))>>]]
  /\ UNCHANGED <<mcp_command, run>>

\* What subprocess.run meets: the shell cannot be started (OSError), or the
\* shell runs the command line and ends with two byte streams and a return
\* code.  A byte that is not text in the locale's encoding is one lexeme.
Undecodable == {"<byte ff>"}
NotStarted(msg) ==
  [kind |-> "OSError", msg |-> msg, stdout |-> <<>>, stderr |-> <<>>,
   returncode |-> 0]
Exited(stdout, stderr, returncode) ==
  [kind |-> "exited", msg |-> <<>>, stdout |-> stdout, stderr |-> stderr,
   returncode |-> returncode]

\* n lists inside one another.
RECURSIVE Nested(_)
Nested(n) == IF n = 0 THEN <<>> ELSE <<"[">> \o Nested(n - 1) \o <<"]">>

SampleEnvelope == Envelope(Bool(TRUE), Str(Lit("page loaded")), Absent, Absent)
Stdouts ==
  {json_dumps(Obj(SampleEnvelope)),
   json_dumps(Obj(Envelope(Bool(FALSE), Absent,
                           Obj([message |-> Str(Lit("server unreachable"))]),
                           Absent))),
   json_dumps(Obj(SampleEnvelope)) \o <<"}">>,
   Nested(2), Nested(RecursionLimit), Nested(RecursionLimit + 1),
   Lit("command not found"), <<>>, <<"<byte ff>">>}
Stderrs == {<<>>, Lit("deno: warning"), <<"<byte ff>">>}
ReturnCodes == {0, 1, 127}
ProcessResults ==
  {NotStarted(Lit("Cannot allocate memory"))} \cup
  {Exited(o, e, c) : o \in Stdouts, e \in Stderrs, c \in ReturnCodes}

\* subprocess.run(full_command, shell=True, capture_output=True, text=True,
\* check=False): the completed process, or the exception it raises.
subprocess_run(proc) ==
  IF proc.kind = "OSError" THEN Raise("OSError", proc.msg)
  ELSE IF \/ \E i \in DOMAIN proc.stdout : proc.stdout[i] \in Undecodable
          \/ \E i \in DOMAIN proc.stderr : proc.stderr[i] \in Undecodable
       THEN Raise("UnicodeDecodeError", Lit("'utf-8' codec can't decode byte"))
  ELSE Return(proc)

\* The try block of _exec_mcp: subprocess.run and json.loads(result.stdout),
\* and which of the handlers an exception reaches (json.JSONDecodeError the
\* first, every other Exception the second).
Outcome(proc) ==
  LET result == subprocess_run(proc)
  IN IF result.raised
     THEN [kind |-> "oserror", raw |-> result.exc[1].msg, value |-> Null]
     ELSE LET parsed == json_loads(proc.stdout)
          IN IF ~parsed.raised THEN Json(Value(parsed))
             ELSE IF parsed.exc[1].type = "JSONDecodeError"
                  THEN [kind |-> "badjson", raw |-> proc.stdout, value |-> Null]
             ELSE [kind |-> "oserror", raw |-> parsed.exc[1].msg, value |-> Null]

\* agent._exec_mcp(command), up to subprocess.run
CallExecMcp(a, task) ==
  /\ call[a].state = "idle"
  /\ call' = [call EXCEPT ![a] =
       Called("_exec_mcp", [task |-> task],
              <<DiscoverCommand(mcp_command[a], task)>>)]
  /\ UNCHANGED <<mcp_command, run>>

\* agent._exec_mcp(command), from subprocess.run on
ExecMcpReturns(a, proc) ==
  /\ call[a].method = "_exec_mcp" /\ call[a].state = "waiting"
  /\ call' = [call EXCEPT ![a] = Completed(@, proc, _exec_mcp(Outcome(proc)))]
  /\ UNCHANGED <<mcp_command, run>>

NextApi ==
  \/ /\ call[MainAgent].state = "idle"
     /\ \E sv \in BatchServers, ops \in ApiOperations, tx \in BOOLEAN :
          CallBatch(MainAgent, sv, ops, tx)
  \/ \E out \in ExecOutcomes : BatchReturns(MainAgent, out)
  \/ /\ call[MainAgent].state = "idle"
     /\ \E t \in InferTools, schema \in InferSchemas, task \in InferTasks :
          CallInfer(MainAgent, t, schema, task)
  \/ \E task \in Tasks : CallExecMcp(MainAgent, task)
  \/ \E proc \in ProcessResults : ExecMcpReturns(MainAgent, proc)

SpecApi == Init /\ [][NextApi]_vars

(***************************************************************************)
(* C11.  A call batch(server, operations, transactional) sends exactly one *)
(* command, a batch command for that server that carries all the           *)
(* operations, in order, and carries the --transactional flag exactly when *)
(* transactional is true; whether the call returns or raises, that command *)
(* is the only one it ever sent.                                           *)
(***************************************************************************)
C11_TransactionalForwarded ==
  \A a \in Agents :
    call[a].method = "batch" =>
      LET c == call[a]
      IN /\ Len(c.sent) = 1
         /\ c.sent[1].cmd = "tools batch"
         /\ c.sent[1].server = c.input.server
         /\ c.sent[1].ops = c.input.operations
         /\ c.sent[1].flag = "--transactional" <=> c.input.transactional
         /\ c.sent[1].flag = "" <=> ~c.input.transactional
         /\ Len(c.received) <= 1

\* A transactional batch of two operations failed.
C11_Witness ==
  \E a \in Agents :
    /\ call[a].method = "batch"
    /\ call[a].state = "raised"
    /\ call[a].input.transactional
    /\ Len(call[a].input.operations) = 2
    /\ call[a].sent[1].flag = "--transactional"


(***************************************************************************)
(* C12.  A run is Done only after three envelopes that report success (the *)
(* first with a match), and its result is then the data of the third       *)
(* envelope, unchanged (None when that envelope has no data); conversely a *)
(* run that received three envelopes reporting success is Done; and a run  *)
(* that is not Done has no result.                                         *)
(***************************************************************************)
C12_DoneReturnsExecutionData ==
  \A a \in Agents :
    LET st == run[a]
    IN /\ st.pc = "Done" =>
            /\ Len(st.resps) = 3
            /\ \A i \in 1..3 : ReportsSuccess(st.resps[i])
            /\ DiscoveredSomething(st.resps[1])
            /\ st.result = <<Get(EnvelopeOf(st.resps[3]).data, Null)>>
       /\ (Len(st.resps) = 3 /\ \A i \in 1..3 : ReportsSuccess(st.resps[i])) =>
            st.pc = "Done"
       /\ st.pc # "Done" => st.result = <<>>

\* The single-tool execution returned a payload and the run returned it.
C12_Witness ==
  \E a \in Agents :
    /\ run[a].pc = "Done"
    /\ run[a].strategy = "single"
    /\ EnvelopeOf(run[a].resps[3]).data = Str(Lit("file contents"))
    /\ run[a].result = <<Str(Lit("file contents"))>>


(***************************************************************************)
(* C13.  The process of main, given a task: it has exited with status 0    *)
(* exactly when the run is Done, and then it has printed the result banner *)
(* and the JSON text of the result on standard output (text that decodes   *)
(* to the result).  When the run is Failed, and in particular after a      *)
(* transport error, a malformed response, a response that does not report  *)
(* success in any of the phases, or the no-match error, it has exited with *)
(* status 1, has printed nothing on standard output, and has printed the   *)
(* error banner and the message on the diagnostic stream.  While the run   *)
(* is under way the process has not exited and has printed no result.      *)
(***************************************************************************)
FailureKind(st) ==
  IF st.error = <<>> THEN "none"
  ELSE LET last == st.resps[Len(st.resps)]
       IN CASE last.kind = "oserror" -> "transport"
            [] last.kind = "badjson" -> "malformed"
            [] st.error[1] = NoMatchError -> "no-match"
            [] IsEnvelope(last) /\ Failed(EnvelopeOf(last)) -> "phase"
            [] OTHER -> "other"

C13_ExitStatus ==
  \A a \in Agents :
    LET st == run[a]
    IN /\ (st.exit = <<0>>) <=> (st.pc = "Done")
       /\ (st.exit = <<1>>) <=> (st.pc = "Failed")
       /\ st.exit = <<>> <=> ~Terminal(st)
       /\ st.pc = "Done" =>
            /\ st.stdout = <<Lit("=== RESULT ==="), json_dumps(st.result[1])>>
            /\ json_loads(st.stdout[2]) = Return(st.result[1])
            /\ st.stderr = <<>>
       /\ st.pc # "Done" => st.stdout = <<>>
       /\ FailureKind(st) # "none" =>
            /\ st.exit = <<1>>
            /\ st.stdout = <<>>
            /\ st.stderr = <<Lit("=== ERROR ==="), st.error[1].msg>>
       /\ \A i \in 1..Len(st.resps) : CallFailed(st.resps[i]) => st.exit = <<1>>

\* Each failure kind has ended a process with status 1 in each phase it can
\* occur in, and a run that is Done has printed a result.
C13_Witness ==
  \E a \in Agents :
    /\ FailureKind(run[a]) = "phase"
    /\ Len(run[a].resps) = 3
    /\ run[a].exit = <<1>>
    /\ run[a].stderr[2] = Lit("Execution failed: ") \o Lit("server unreachable")

C13_DoneReached ==
  \E a \in Agents :
    /\ run[a].exit = <<0>>
    /\ run[a].result = <<Str(Lit("page loaded"))>>
    /\ run[a].stdout[2] = <<"\"", "page loaded", "\"">>

(***************************************************************************)
(* C14.  _exec_mcp classifies by the captured standard output alone.  When *)
(* the process ran and its output was captured as text: standard output    *)
(* that is JSON text is returned as the decoded value, whatever the return *)
(* code and the diagnostic stream; standard output that json.loads cannot  *)
(* decode raises ValueError with the parse label followed by the raw       *)
(* output.  When the process could not be run or its output not captured,  *)
(* RuntimeError with the transport label is raised.  A failure of          *)
(* json.loads is never reported as RuntimeError.                           *)
(***************************************************************************)
ExecMcpCalls == {a \in Agents : call[a].method = "_exec_mcp" /\ call[a].state # "waiting"}
Captured(proc) == ~subprocess_run(proc).raised

\* The text is a JSON value followed by nothing: brackets balance and
\* every value is where one is expected, whatever the depth of nesting.
IsJsonText(text) ==
  \/ ~json_loads(text).raised
  \/ \E n \in 1..(RecursionLimit + 2) : text = Nested(n)

C14_ClassifiedByStdout ==
  \A a \in ExecMcpCalls :
    LET proc == call[a].received[1]
        res == call[a].res[1]
    IN /\ Captured(proc) /\ IsJsonText(proc.stdout) =>
            /\ ~res.raised
            /\ ~json_loads(proc.stdout).raised => res = json_loads(proc.stdout)
       /\ Captured(proc) /\ ~IsJsonText(proc.stdout) =>
            /\ res.raised
            /\ res.exc[1] = [type |-> "ValueError",
                             msg |-> Lit("Failed to parse MCP response: ")
                                       \o proc.stdout]
       /\ ~Captured(proc) =>
            /\ res.raised
            /\ res.exc[1].type = "RuntimeError"
            /\ res.exc[1].msg[1] = "Failed to execute MCP command: "
       /\ Captured(proc) /\ json_loads(proc.stdout).raised =>
            res.raised /\ res.exc[1].type # "RuntimeError"

\* The same, for standard output that is nested less deeply than the
\* decoder can go.
C14_WithinRecursionLimit ==
  \A a \in ExecMcpCalls :
    LET proc == call[a].received[1]
        res == call[a].res[1]
        parsed == json_loads(proc.stdout)
    IN Captured(proc) /\ (parsed.raised => parsed.exc[1].type = "JSONDecodeError") =>
         /\ ~parsed.raised => res = parsed
         /\ parsed.raised =>
              res.exc = <<[type |-> "ValueError",
                           msg |-> Lit("Failed to parse MCP response: ")
                                     \o proc.stdout]>>

\* JSON text came with a non-zero return code and a diagnostic stream and
\* was returned; text nested too deeply was reported as a transport error.
C14_StatusIgnoredReached ==
  \E a \in ExecMcpCalls :
    /\ call[a].received[1].returncode = 1
    /\ call[a].received[1].stderr = Lit("deno: warning")
    /\ call[a].received[1].stdout = json_dumps(Obj(SampleEnvelope))
    /\ ~call[a].res[1].raised

C14_TooDeepReached ==
  \E a \in ExecMcpCalls :
    /\ call[a].received[1].stdout = Nested(RecursionLimit + 1)
    /\ Captured(call[a].received[1])
    /\ call[a].res[1].raised
    /\ call[a].res[1].exc[1].type = "RuntimeError"

(***************************************************************************)
(* C15.  infer_arguments is total.  Called with any tool name, any schema  *)
(* (None included) and any task (the empty one included), it returns a     *)
(* mapping from argument names to values and raises nothing.  When the     *)
(* task holds no URL (no scheme prefix followed by a non-blank), the       *)
(* arguments of browser_navigate are the default URL; when it holds no     *)
(* quoted text (no quote, one or more non-quotes, a quote), the arguments  *)
(* of read_file are the default path; the arguments of browser_screenshot  *)
(* are always its defaults; for any other tool name the mapping is empty.  *)
(* When a pattern is found the argument is a part of the task.             *)
(***************************************************************************)
InferCalls == {a \in Agents : call[a].method = "infer_arguments"}

HoldsUrl(task) ==
  \E i \in 1..(Len(task) - 1) : task[i] \in Schemes /\ task[i + 1] \notin Spaces
HoldsQuoted(task) ==
  \E i, j \in 1..Len(task) :
    /\ i + 1 < j
    /\ task[i] \in Quotes /\ task[j] \in Quotes
    /\ \A k \in (i + 1)..(j - 1) : task[k] \notin Quotes
PartOf(text, task) ==
  \E i, j \in 1..Len(task) : i <= j /\ text = SubSeq(task, i, j)

DefaultArguments(tool_name) ==
  CASE tool_name = "browser_navigate" -> [url |-> Str(Lit("https://example.com"))]
    [] tool_name = "browser_screenshot" ->
         [filename |-> Str(Lit("screenshot.png")), fullPage |-> Bool(TRUE)]
    [] tool_name = "read_file" -> [path |-> Str(Lit("README.md"))]
    [] OTHER -> NoArgs

C15_InferenceIsTotal ==
  \A a \in InferCalls :
    LET in == call[a].input
        res == call[a].res[1]
        args == Value(res)
        matched == \/ in.tool_name = "browser_navigate" /\ HoldsUrl(in.task)
                   \/ in.tool_name = "read_file" /\ HoldsQuoted(in.task)
    IN /\ call[a].state = "returned"
       /\ ~res.raised
       /\ DOMAIN args = DOMAIN DefaultArguments(in.tool_name)
       /\ \A k \in DOMAIN args : args[k].t \in {"str", "bool"}
       /\ ~matched => args = DefaultArguments(in.tool_name)
       /\ matched =>
            \A k \in DOMAIN args :
              /\ PartOf(Unwrap(args[k]), in.task)
              /\ k = "url" => Unwrap(args[k])[1] \in Schemes
              /\ k = "url" => \A i \in DOMAIN Unwrap(args[k]) :
                                Unwrap(args[k])[i] \notin Spaces
              /\ k = "path" => \A i \in DOMAIN Unwrap(args[k]) :
                                 Unwrap(args[k])[i] \notin Quotes
       /\ in.tool_name \notin {"browser_navigate", "browser_screenshot", "read_file"}
            => args = NoArgs

\* A task with a scheme prefix and nothing after it: no URL is found and
\* the default is returned, with no schema.
C15_Witness ==
  \E a \in InferCalls :
    /\ call[a].input.tool_name = "browser_navigate"
    /\ call[a].input.schema = Null
    /\ call[a].input.task = <<"a.io", " ", "https://", " ">>
    /\ Value(call[a].res[1]) = [url |-> Str(Lit("https://example.com"))]

C15_UnknownToolReached ==
  \E a \in InferCalls :
    /\ call[a].input.tool_name = "write_file"
    /\ call[a].input.task = <<>>
    /\ Value(call[a].res[1]) = NoArgs

(***************************************************************************)
(* C17.  Every operation {"tool": ..., "args": ...} that batch writes on   *)
(* its command line as JSON text decodes to a structure equal to the one   *)
(* it was given: as many operations, each with the same tool, the same     *)
(* argument names and the same values, and no other field.  The arguments  *)
(* are those infer_arguments returns for any tool name and any task.       *)
(***************************************************************************)
BatchCalls == {a \in Agents : call[a].method = "batch"}

C17_OperationRoundTrip ==
  \A a \in BatchCalls :
    LET operations == call[a].input.operations
        decoded == json_loads(call[a].sent[1].json)
    IN /\ \A i \in DOMAIN operations : operations[i] \in BuiltOperations
       /\ ~decoded.raised
       /\ Value(decoded).t = "list"
       /\ Len(Unwrap(Value(decoded))) = Len(operations)
       /\ \A i \in DOMAIN operations :
            LET op == Unwrap(Value(decoded))[i]
            IN /\ op.t = "obj"
               /\ DOMAIN Unwrap(op) = {"tool", "args"}
               /\ Unwrap(op).tool = Str(Lit(operations[i].tool))
               /\ Unwrap(op).args.t = "obj"
               /\ DOMAIN Unwrap(Unwrap(op).args) = DOMAIN operations[i].args
               /\ \A k \in DOMAIN operations[i].args :
                    Unwrap(Unwrap(op).args)[k] = operations[i].args[k]
               /\ op = OperationJson(operations[i])

\* An operation whose URL holds a quote and a backslash was written.
C17_Witness ==
  \E a \in BatchCalls :
    /\ call[a].input.operations =
         <<[tool |-> "browser_navigate",
            args |-> [url |-> Str(<<"https://", "\"", "\\", "a.io">>)]]>>
    /\ \E i \in DOMAIN call[a].sent[1].json :
         SubSeq(call[a].sent[1].json, i, i + 4)
           = <<"\"", "https://", "\\\"", "\\\\", "a.io">>

(***************************************************************************)
(* Two runs at once.  Each agent is an MCPAgent of its own, in a process   *)
(* or thread of its own, and runs execute_task once; the steps of the two  *)
(* interleave in every order and each backend call gets a response of its  *)
(* own.                                                                    *)
(***************************************************************************)
NextConc ==
  \/ \E a \in Agents, task \in Tasks : Start(a, task)
  \/ \E a \in Agents, out \in PairDiscoverOutcomes : DiscoverReturns(a, out)
  \/ \E a \in Agents, out \in PairSchemaOutcomes : SchemaReturns(a, out)
  \/ \E a \in Agents, out \in PairExecOutcomes : ExecReturns(a, out)

SpecConc == Init /\ [][NextConc]_vars

\* The run of execute_task(task) by an agent alone, in the state it is in
\* after the backend has given the responses resps, in this order.
Alone(prog, task, resps) ==
  LET s0 == execute_task(IdleRun, prog, task)
      s1 == IF Len(resps) >= 1 THEN main(after_discover(s0, prog, resps[1])) ELSE s0
      s2 == IF Len(resps) >= 2 THEN main(after_schema(s1, prog, resps[2])) ELSE s1
      s3 == IF Len(resps) >= 3 THEN main(after_exec(s2, resps[3])) ELSE s2
  IN s3

(***************************************************************************)
(* C16.  Runs in separate agents do not interfere.  In every interleaving  *)
(* of two runs, each run is in the state in which the same task, run alone *)
(* against the responses this run received, would be: the same commands    *)
(* issued in the same order, the same position, the same result or error,  *)
(* the same exit status.  The backend command of each agent is the one it  *)
(* was constructed with, and every command of a run was sent to it.        *)
(***************************************************************************)
C16_RunsDoNotInterfere ==
  /\ mcp_command = [a \in Agents |-> DefaultCommand]
  /\ \A a \in Agents :
       /\ run[a].pc = "Idle" => run[a] = IdleRun
       /\ run[a].pc # "Idle" =>
            /\ run[a] = Alone(mcp_command[a], run[a].task, run[a].resps)
            /\ run[a].calls = Alone(mcp_command[a], run[a].task, run[a].resps).calls
            /\ \A i \in DOMAIN run[a].calls : run[a].calls[i].prog = mcp_command[a]
            /\ run[a].calls[1].task = run[a].task

\* Two runs with different tasks are under way at once, on different
\* branches, each with arguments inferred from its own task.
C16_Witness ==
  /\ run["a1"].task = TaskNavigate /\ run["a2"].task = TaskReadNotes
  /\ run["a1"].pc = "Executing" /\ run["a2"].pc = "Executing"
  /\ run["a1"].strategy = "batch" /\ run["a2"].strategy = "single"
  /\ run["a1"].calls[3].ops[1].args = [url |-> Str(<<"https://", "a.io">>)]
  /\ run["a2"].calls[3].ops[1].args = [path |-> Str(<<"notes.txt">>)]

(***************************************************************************)
(* C18.  On the batch branch the suggested batch is trusted.  The schema   *)
(* command names the server and the tools of suggested_batch, in its       *)
(* order, and so does the batch command: one operation for each tool of    *)
(* suggested_batch, in its order, whether or not the server or any of the  *)
(* tools appears in matches.  The commands of the run are those of the run *)
(* in which the discovery response carries any other non-empty list of     *)
(* matches.                                                                *)
(***************************************************************************)
WithMatches(out, matches) ==
  Json(Obj([EnvelopeOf(out) EXCEPT
              !.data = Obj([Unwrap(@) EXCEPT !.matches = matches])]))

OtherMatches == List(<<ToolMatch("db", "run_query", 1)>>)

C18_BatchIsTrusted ==
  \A a \in Agents :
    LET st == run[a]
        suggested_batch == Unwrap(BatchIn(st.resps[1]))
    IN OnBatchBranch(st) =>
         /\ DiscoveredSomething(st.resps[1])
         /\ st.calls[2].cmd = "tools schema"
         /\ st.calls[2].server = suggested_batch.server
         /\ st.calls[2].tools = suggested_batch.operations
         /\ Len(st.calls) = 3 =>
              /\ st.calls[3].cmd = "tools batch"
              /\ st.calls[3].server = suggested_batch.server
              /\ [i \in DOMAIN st.calls[3].ops |-> st.calls[3].ops[i].tool]
                   = suggested_batch.operations
         /\ st.calls =
              Alone(mcp_command[a], st.task,
                    [st.resps EXCEPT ![1] = WithMatches(@, OtherMatches)]).calls

\* A batch was executed whose server and tools are not among the matches.
C18_Witness ==
  \E a \in Agents :
    LET st == run[a]
    IN /\ OnBatchBranch(st)
       /\ Len(st.calls) = 3
       /\ st.calls[3].cmd = "tools batch"
       /\ Len(st.calls[3].ops) >= 1
       /\ \A i \in DOMAIN Unwrap(MatchesIn(st.resps[1])) :
            /\ Unwrap(MatchesIn(st.resps[1]))[i].server # st.calls[3].server
            /\ \A j \in DOMAIN st.calls[3].ops :
                 Unwrap(MatchesIn(st.resps[1]))[i].tool # st.calls[3].ops[j].tool

(***************************************************************************)
(* Runs whose backend calls return.  subprocess.run blocks until the       *)
(* command ends, and the claim below assumes that it does: a return that   *)
(* stays possible eventually happens.                                      *)
(***************************************************************************)
LiveDiscoverOutcomes ==
  Accepted({Obj([matches |-> List(<<m>>), suggested_batch |-> b]) :
              m \in MatchPool, b \in BatchValues})
  \cup {Refusal} \cup BrokenOutcomes

NextLive ==
  \/ \E task \in Tasks : Start(MainAgent, task)
  \/ \E out \in LiveDiscoverOutcomes : DiscoverReturns(MainAgent, out)
  \/ \E out \in SchemaOutcomes : SchemaReturns(MainAgent, out)
  \/ \E out \in PairExecOutcomes : ExecReturns(MainAgent, out)

Fairness ==
  /\ WF_vars(\E out \in LiveDiscoverOutcomes : DiscoverReturns(MainAgent, out))
  /\ WF_vars(\E out \in SchemaOutcomes : SchemaReturns(MainAgent, out))
  /\ WF_vars(\E out \in PairExecOutcomes : ExecReturns(MainAgent, out))

SpecLive == Init /\ [][NextLive]_vars /\ Fairness

(***************************************************************************)
(* C19.  Every run terminates.  A run that has left Idle eventually is     *)
(* Done or Failed, provided every backend call returns.  It never sends    *)
(* more than three commands, however many operations the suggested batch   *)
(* holds.  Its position only moves from Idle to Discovering, from there to *)
(* BatchPlanning or SinglePlanning, from there to Executing and from there *)
(* to Done, or from any of the positions after Idle to Failed; once Done   *)
(* or Failed the run does not change any more.                             *)
(***************************************************************************)
Transitions ==
  {<<"Idle", "Discovering">>,
   <<"Discovering", "BatchPlanning">>, <<"Discovering", "SinglePlanning">>,
   <<"BatchPlanning", "Executing">>, <<"SinglePlanning", "Executing">>,
   <<"Executing", "Done">>,
   <<"Discovering", "Failed">>, <<"BatchPlanning", "Failed">>,
   <<"SinglePlanning", "Failed">>, <<"Executing", "Failed">>}

C19_EveryRunTerminates ==
  /\ [](\A a \in Agents : Len(run[a].calls) <= 3 /\ Len(run[a].pending) <= 1)
  /\ [][\A a \in Agents :
          /\ run'[a] # run[a] => <<run[a].pc, run'[a].pc>> \in Transitions
          /\ Terminal(run[a]) => run'[a] = run[a]]_vars
  /\ \A a \in Agents : (run[a].pc # "Idle") ~> Terminal(run[a])
  /\ \A a \in Agents : [](Terminal(run[a]) => [](Terminal(run[a])))

\* A batch of MaxOps operations was executed with three commands.
C19_Witness ==
  \E a \in Agents :
    /\ run[a].pc = "Done"
    /\ Len(run[a].calls) = 3
    /\ run[a].calls[3].cmd = "tools batch"
    /\ Len(run[a].calls[3].ops) = MaxOps

(***************************************************************************)
(* C20.  Failure is the default reading of an envelope.  Whichever of      *)
(* discover, load_schemas, exec_tool and batch receives an envelope whose  *)
(* success is false, null or missing, the run is Failed there: it has no   *)
(* result, prints none and sends no further command, also when the         *)
(* envelope carries data.  When the envelope has no error, or an error     *)
(* without message, the message is the label of the phase followed by      *)
(* "Unknown error".  The data of the envelope is without any effect: the   *)
(* run is in the state it would be in had the envelope carried no data.    *)
(***************************************************************************)
WithData(out, data) == Json(Obj([EnvelopeOf(out) EXCEPT !.data = data]))
Forget(st) == [st EXCEPT !.resps = <<>>]

C20_FailureIsDefault ==
  \A a \in Agents :
    \A i \in 1..Len(run[a].resps) :
      LET st == run[a]
          out == st.resps[i]
      IN IsEnvelope(out) /\ EnvelopeOf(out).success \in {Bool(FALSE), Null, Absent} =>
           /\ st.pc = "Failed"
           /\ st.error # <<>>
           /\ st.result = <<>>
           /\ st.stdout = <<>>
           /\ Len(st.resps) = i /\ Len(st.calls) = i
           /\ EnvelopeOf(out).error \in {Absent, Obj(EmptyError)} =>
                st.error = <<[type |-> "RuntimeError",
                              msg |-> Lit(PhaseLabel(st.calls[i].cmd))
                                        \o Lit("Unknown error")]>>
           /\ Forget(st) =
                Forget(Alone(mcp_command[a], st.task,
                             [st.resps EXCEPT ![i] = WithData(@, Absent)]))

\* A batch answered without success field and without error, with data.
C20_Witness ==
  \E a \in Agents :
    /\ Len(run[a].resps) = 3
    /\ run[a].calls[3].cmd = "tools batch"
    /\ IsEnvelope(run[a].resps[3])
    /\ EnvelopeOf(run[a].resps[3]) =
         Envelope(Absent, Str(Lit("page loaded")), Absent, Absent)
    /\ run[a].error = <<[type |-> "RuntimeError",
                         msg |-> <<"Batch execution failed: ", "Unknown error">>]>>

C20_EachPhaseReached ==
  \E a \in Agents :
    /\ Len(run[a].resps) = 2
    /\ EnvelopeOf(run[a].resps[2]).success = Null
    /\ EnvelopeOf(run[a].resps[2]).data = List(<<ToolSchema("browser_navigate")>>)
    /\ run[a].pc = "Failed"

====
